---- MODULE Spec2Model ----
(***************************************************************************)
(* MeshCom UDP listener: the per-packet pipeline of listener.py            *)
(* (_handle_packet inside the receive loop of start_udp_listener), the     *)
(* store it calls (database.py) and the Telegram forwarder it calls        *)
(* (forwarder.py).                                                         *)
(*                                                                         *)
(* Text is a sequence of one-character strings.  A Python/JSON value is a  *)
(* record [t, s, n]: t is the type tag, s the characters of a str, n the   *)
(* number of an int (or 1/0 of a bool).  A dict with string keys is a      *)
(* record whose fields hold <<>> (key absent) or <<value>> (key present).  *)
(***************************************************************************)
EXTENDS Integers, Sequences, FiniteSets, TLC

\* ------------------------------------------------------------------ bounds
\* Packets received in one run of the loop.
MaxPackets == 2
\* Longest rule list drawn for forwarding.rules.
MaxRules == 2

\* ------------------------------------------------------------ Python values
None == [t |-> "null", s |-> <<>>, n |-> 0]
Str(chars) == [t |-> "str", s |-> chars, n |-> 0]
Num(k) == [t |-> "num", s |-> <<>>, n |-> k]
Bool(b) == [t |-> "bool", s |-> <<>>, n |-> IF b THEN 1 ELSE 0]

\* bool(v): '' , 0, False and None are falsy.
Truthy(v) ==
    CASE v.t = "str" -> v.s # <<>>
      [] v.t \in {"num", "bool"} -> v.n # 0
      [] OTHER -> FALSE

\* a == b on JSON scalars (True == 1 and False == 0 in Python).
PyEq(a, b) ==
    CASE a.t = "str" /\ b.t = "str" -> a.s = b.s
      [] a.t \in {"num", "bool"} /\ b.t \in {"num", "bool"} -> a.n = b.n
      [] a.t = "null" /\ b.t = "null" -> TRUE
      [] OTHER -> FALSE

\* key in d
HasKey(d, key) == key \in DOMAIN d /\ d[key] # <<>>
\* d.get(key, default)
GetOr(d, key, default) == IF HasKey(d, key) THEN d[key][1] ELSE default
\* d.get(key)
Get(d, key) == GetOr(d, key, None)

\* Decimal digits of a natural number, as str() prints an int.
RECURSIVE NatToStr(_)
NatToStr(k) ==
    LET d == <<"0", "1", "2", "3", "4", "5", "6", "7", "8", "9">>[(k % 10) + 1]
    IN  IF k < 10 THEN <<d>> ELSE NatToStr(k \div 10) \o <<d>>

IntToStr(k) == IF k < 0 THEN <<"-">> \o NatToStr(0 - k) ELSE NatToStr(k)

\* str(v), as an f-string or str.format prints a value.
PyStr(v) ==
    CASE v.t = "str" -> v.s
      [] v.t = "num" -> IntToStr(v.n)
      [] v.t = "bool" -> IF v.n = 1 THEN <<"T", "r", "u", "e">>
                                    ELSE <<"F", "a", "l", "s", "e">>
      [] OTHER -> <<"N", "o", "n", "e">>

\* ------------------------------------------------------------ str methods
\* text.replace(old, new) for a one-character old.  The text is split in
\* halves, which keeps the recursion shallow on long texts; every occurrence
\* is replaced once, left to right.
RECURSIVE Replace(_, _, _)
Replace(text, old, new) ==
    IF Len(text) = 0 THEN <<>>
    ELSE IF Len(text) = 1 THEN (IF text[1] = old THEN new ELSE text)
    ELSE LET half == Len(text) \div 2
         IN  Replace(SubSeq(text, 1, half), old, new)
             \o Replace(SubSeq(text, half + 1, Len(text)), old, new)

\* text.split(sep)[0]: the characters before the first sep.
RECURSIVE SplitFirst(_, _)
SplitFirst(text, sep) ==
    IF text = <<>> \/ Head(text) = sep THEN <<>>
    ELSE <<Head(text)>> \o SplitFirst(Tail(text), sep)

Whitespace == {" "}

RECURSIVE LStrip(_)
LStrip(text) ==
    IF text # <<>> /\ Head(text) \in Whitespace THEN LStrip(Tail(text)) ELSE text

RECURSIVE RStrip(_)
RStrip(text) ==
    IF text # <<>> /\ text[Len(text)] \in Whitespace
    THEN RStrip(SubSeq(text, 1, Len(text) - 1))
    ELSE text

\* strip() that trims the left end only.
StripLeftOnly(text) == LStrip(text)

\* text.strip()
Strip(text) == RStrip(LStrip(text))

\* ------------------------------------------------- forwarder.py: escaping
\* The backquote character (a TLA+ string cannot hold it).
Backquote == "backquote"

\* escape_chars: the 18 reserved MarkdownV2 characters, in the code's order.
escape_chars ==
    <<"_", "*", "[", "]", "(", ")", "~", Backquote, ">", "#", "+", "=", "-", "|",
      "{", "}", ".", "!">>

RECURSIVE EscapeLoop(_, _)
EscapeLoop(text, i) ==
    IF i > Len(escape_chars) THEN text
    ELSE EscapeLoop(Replace(text, escape_chars[i], <<"\\", escape_chars[i]>>), i + 1)

\* An escape that doubles the backslashes after the reserved characters
\* have been escaped instead of before.
escape_backslash_last(v) ==
    IF v.t = "null" THEN [exc |-> "", text |-> <<>>]
    ELSE IF v.t # "str" THEN [exc |-> "AttributeError", text |-> <<>>]
    ELSE [exc |-> "",
          text |-> Replace(EscapeLoop(v.s, 1), "\\", <<"\\", "\\">>)]

\* escape_markdown_v2(text): [exc, text].  None gives ''; a value that is
\* not a str has no .replace and raises AttributeError.
escape_markdown_v2(v) ==
    IF v.t = "null" THEN [exc |-> "", text |-> <<>>]
    ELSE IF v.t # "str" THEN [exc |-> "AttributeError", text |-> <<>>]
    ELSE [exc |-> "",
          text |-> EscapeLoop(Replace(v.s, "\\", <<"\\", "\\">>), 1)]

\* The u-umlaut character of the code's German texts.
Uuml == "uuml"

\* ------------------------------------------------------- string constants
NoTemplatePrefix ==
    <<"F", "e", "h", "l", "e", "r", ":", " ", "K", "e", "i", "n", " ", "T",
      "e", "m", "p", "l", "a", "t", "e", " ", "f", Uuml, "r", " ", "N", "a",
      "c", "h", "r", "i", "c", "h", "t", "e", "n", "t", "y", "p", " ", "'">>

NoTemplateSuffix ==
    <<"'", " ", "g", "e", "f", "u", "n", "d", "e", "n", ".">>

FormatErrorPrefix ==
    <<"F", "e", "h", "l", "e", "r", " ", "b", "e", "i", "m", " ", "F", "o",
      "r", "m", "a", "t", "i", "e", "r", "e", "n", " ", "d", "e", "r", " ",
      "N", "a", "c", "h", "r", "i", "c", "h", "t", " ", "(", "T", "y", "p",
      ":", " ">>

InternalErrorPrefix ==
    <<"I", "n", "t", "e", "r", "n", "e", "r", " ", "F", "e", "h", "l", "e",
      "r", " ", "b", "e", "i", "m", " ", "F", "o", "r", "m", "a", "t", "i",
      "e", "r", "e", "n", " ", "(", "T", "y", "p", ":", " ">>

MapLinkPrefix ==
    <<"h", "t", "t", "p", "s", ":", "/", "/", "w", "w", "w", ".", "o", "p",
      "e", "n", "s", "t", "r", "e", "e", "t", "m", "a", "p", ".", "o", "r",
      "g", "/", "?", "m", "l", "a", "t", "=">>

MapLinkLon ==
    <<"&", "m", "l", "o", "n", "=">>

MapLinkZoom ==
    <<"#", "m", "a", "p", "=", "1", "5", "/">>

AltInvalid ==
    <<"U", "n", "g", Uuml, "l", "t", "i", "g">>

S_unknown ==
    <<"u", "n", "k", "n", "o", "w", "n">>

S_default ==
    <<"d", "e", "f", "a", "u", "l", "t">>

S_msg ==
    <<"m", "s", "g">>

S_pos ==
    <<"p", "o", "s">>

S_ADMIN ==
    <<"A", "D", "M", "I", "N">>

\* The keys of a message the pipeline reads, in the order json.dumps writes
\* them (a dict keeps the payload's key order; the model fixes one order).
KeyOrder == <<"type", "src", "dst", "msg_id", "msg", "ack_id", "lat", "long", "alt">>

KeyText ==
    [type |-> <<"t", "y", "p", "e">>, src |-> <<"s", "r", "c">>,
     dst |-> <<"d", "s", "t">>, msg_id |-> <<"m", "s", "g", "_", "i", "d">>,
     msg |-> <<"m", "s", "g">>, ack_id |-> <<"a", "c", "k", "_", "i", "d">>,
     lat |-> <<"l", "a", "t">>, long |-> <<"l", "o", "n", "g">>,
     alt |-> <<"a", "l", "t">>]

\* ------------------------------------------------------------- json.dumps
\* A str as a JSON string literal (ensure_ascii=False).
JsonString(chars) ==
    <<"\"">>
    \o Replace(Replace(Replace(chars, "\\", <<"\\", "\\">>), "\"", <<"\\", "\"">>),
               "\n", <<"\\", "n">>)
    \o <<"\"">>

JsonValue(v) ==
    CASE v.t = "str" -> JsonString(v.s)
      [] v.t = "num" -> IntToStr(v.n)
      [] v.t = "bool" -> IF v.n = 1 THEN <<"t", "r", "u", "e">>
                                    ELSE <<"f", "a", "l", "s", "e">>
      [] OTHER -> <<"n", "u", "l", "l">>

RECURSIVE JsonItems(_, _, _, _)
JsonItems(d, i, item_separator, key_separator) ==
    IF i > Len(KeyOrder) THEN <<>>
    ELSE LET key == KeyOrder[i]
             rest == JsonItems(d, i + 1, item_separator, key_separator)
         IN  IF ~HasKey(d, key) THEN rest
             ELSE JsonString(KeyText[key]) \o key_separator \o JsonValue(d[key][1])
                  \o (IF rest = <<>> THEN <<>> ELSE item_separator \o rest)

\* json.dumps(d, ensure_ascii=False, separators=(',', ':'))
JsonDumpsCompact(d) == <<"{">> \o JsonItems(d, 1, <<",">>, <<":">>) \o <<"}">>

\* json.dumps(d, indent=1, ensure_ascii=False)
JsonDumpsIndent(d) ==
    LET items == JsonItems(d, 1, <<",", "\n", " ">>, <<":", " ">>)
    IN  IF items = <<>> THEN <<"{", "}">>
        ELSE <<"{", "\n", " ">> \o items \o <<"\n", "}">>

\* ------------------------------------------- forwarder.py: render context
\* raw_json[:200]
RawJsonMax == 200

\* safe_get = lambda key, default='': message_dict.get(key, default) or default
safe_get(message_dict, key, default) ==
    LET v == GetOr(message_dict, key, default)
    IN  IF Truthy(v) THEN v ELSE default

Digits == {"0", "1", "2", "3", "4", "5", "6", "7", "8", "9"}

RECURSIVE StrToNat(_)
StrToNat(chars) ==
    IF chars = <<>> THEN 0
    ELSE LET last == chars[Len(chars)]
             d == CHOOSE k \in 0..9 : NatToStr(k) = <<last>>
         IN  StrToNat(SubSeq(chars, 1, Len(chars) - 1)) * 10 + d

\* float(v): [exc, n].  An int or bool converts; a str converts when, with
\* surrounding whitespace removed, it is a run of decimal digits (the only
\* numerals the model's alphabet forms), else ValueError; None is a TypeError.
ToFloat(v) ==
    CASE v.t \in {"num", "bool"} -> [exc |-> "", n |-> v.n]
      [] v.t = "str" ->
            LET body == Strip(v.s)
            IN  IF body # <<>> /\ \A i \in 1..Len(body) : body[i] \in Digits
                THEN [exc |-> "", n |-> StrToNat(body)]
                ELSE [exc |-> "ValueError", n |-> 0]
      [] OTHER -> [exc |-> "TypeError", n |-> 0]

\* str(round(float(alt) * 0.3048, 1)) for a whole number of feet: the tenths
\* of a metre nearest to alt * 0.3048 (alt * 3.048 is never half-way between
\* two integers when alt is whole).
AltMeters(feet) ==
    LET mag == IF feet < 0 THEN 0 - feet ELSE feet
        tenths == (mag * 3048 + 500) \div 1000
    IN  (IF feet < 0 THEN <<"-">> ELSE <<>>)
        \o NatToStr(tenths \div 10) \o <<".">> \o NatToStr(tenths % 10)

\* The exception of the first call that raised, "" when none did.
RECURSIVE FirstExc(_)
FirstExc(results) ==
    IF results = <<>> THEN ""
    ELSE IF Head(results).exc # "" THEN Head(results).exc
    ELSE FirstExc(Tail(results))

\* alt_m_str of _prepare_render_context
AltMString(alt) ==
    LET Converted(f) == IF f.exc = "" THEN AltMeters(f.n) ELSE AltInvalid
    IN  IF PyEq(alt, None) \/ PyEq(alt, Str(<<>>)) \/ PyEq(alt, Str(<<"?">>))
        THEN <<"N", "/", "A">>
        ELSE Converted(ToFloat(alt))

\* map_link of _prepare_render_context
MapLink(lat, long) ==
    IF ~PyEq(lat, Str(<<"?">>)) /\ ~PyEq(long, Str(<<"?">>))
    THEN MapLinkPrefix \o PyStr(lat) \o MapLinkLon \o PyStr(long)
         \o MapLinkZoom \o PyStr(lat) \o <<"/">> \o PyStr(long)
    ELSE <<"N", "/", "A">>

\* A truncation that puts the marker on a text of exactly 200 characters too.
RawJsonShortAtLimit(raw_json) ==
    SubSeq(raw_json, 1, IF Len(raw_json) < RawJsonMax THEN Len(raw_json)
                                                     ELSE RawJsonMax)
    \o (IF Len(raw_json) >= RawJsonMax THEN <<".", ".", ".">> ELSE <<>>)

\* f"{raw_json[:200]}{'...' if len(raw_json) > 200 else ''}"
RawJsonShort(raw_json) ==
    SubSeq(raw_json, 1, IF Len(raw_json) < RawJsonMax THEN Len(raw_json)
                                                     ELSE RawJsonMax)
    \o (IF Len(raw_json) > RawJsonMax THEN <<".", ".", ".">> ELSE <<>>)

\* _prepare_render_context(message_dict): [exc, context].  The six escaped
\* fields are computed first, in order; the first escape that raises ends the
\* call.
_prepare_render_context(message_dict) ==
    LET Build(escaped, lat, long, alt) ==
            IF FirstExc(escaped) # ""
            THEN [exc |-> FirstExc(escaped), context |-> [type |-> None]]
            ELSE [exc |-> "",
                  context |->
                    [type |-> Str(escaped[1].text), src |-> Str(escaped[2].text),
                     dst |-> Str(escaped[3].text), msg |-> Str(escaped[4].text),
                     msg_id |-> Str(escaped[5].text), ack_id |-> Str(escaped[6].text),
                     lat |-> lat, long |-> long, alt |-> alt,
                     _alt_m |-> Str(AltMString(alt)),
                     _map_link |-> Str(MapLink(lat, long)),
                     _raw_json_short |->
                        Str(RawJsonShort(JsonDumpsCompact(message_dict)))]]
    IN  Build(<<escape_markdown_v2(safe_get(message_dict, "type", Str(S_unknown))),
                escape_markdown_v2(safe_get(message_dict, "src", Str(<<>>))),
                escape_markdown_v2(safe_get(message_dict, "dst", Str(<<>>))),
                escape_markdown_v2(safe_get(message_dict, "msg", Str(<<>>))),
                escape_markdown_v2(safe_get(message_dict, "msg_id", Str(<<>>))),
                escape_markdown_v2(safe_get(message_dict, "ack_id", Str(<<>>)))>>,
              safe_get(message_dict, "lat", Str(<<"?">>)),
              safe_get(message_dict, "long", Str(<<"?">>)),
              safe_get(message_dict, "alt", Str(<<>>)))

\* ---------------------------------------------- forwarder.py: templates
\* A template string is a sequence of tokens: a literal character, a
\* replacement field {name}, a field with an attribute lookup {name.attr}
\* (which a str value does not have), or a brace that opens or closes
\* nothing.
Lit(c) == [k |-> "lit", v |-> c]
Field(name) == [k |-> "field", v |-> name]
AttrField(name) == [k |-> "attr", v |-> name]
StrayBrace == [k |-> "brace", v |-> "{"]

\* A default factory that yields the empty string.
safe_context_blank(context, name) ==
    IF name \in DOMAIN context THEN context[name] ELSE Str(<<>>)

\* defaultdict(lambda: '???', context)[name]
safe_context(context, name) ==
    IF name \in DOMAIN context THEN context[name] ELSE Str(<<"?", "?", "?">>)

\* template_str.format_map(safe_context): [exc, text].  The format string is
\* scanned left to right and the first token that fails raises.
RECURSIVE format_map(_, _)
format_map(template_str, context) ==
    LET Put(tok, rest) ==
            CASE tok.k = "brace" -> [exc |-> "ValueError", text |-> <<>>]
              [] tok.k = "attr" -> [exc |-> "AttributeError", text |-> <<>>]
              [] rest.exc # "" -> rest
              [] tok.k = "field" ->
                   [exc |-> "",
                    text |-> PyStr(safe_context(context, tok.v)) \o rest.text]
              [] OTHER -> [exc |-> "", text |-> <<tok.v>> \o rest.text]
    IN  IF template_str = <<>> THEN [exc |-> "", text |-> <<>>]
        ELSE Put(Head(template_str), format_map(Tail(template_str), context))

\* self.templates.get(msg_type, self.templates.get('default')); <<>> stands
\* for both None and the empty template, which `not template_str` treats alike.
SelectTemplate(templates, msg_type) ==
    IF msg_type.t = "str" /\ msg_type.s \in DOMAIN templates
    THEN templates[msg_type.s]
    ELSE IF S_default \in DOMAIN templates THEN templates[S_default] ELSE <<>>

\* A lookup that removes what it finds (dict.pop in place of dict.get).
TemplatesAfterPop(templates, msg_type) ==
    IF msg_type.t = "str" /\ msg_type.s \in DOMAIN templates
    THEN [k \in DOMAIN templates \ {msg_type.s} |-> templates[k]]
    ELSE templates

\* self.templates after the lookup: dict.get reads and leaves the dict as it
\* was.
TemplatesAfter(templates, msg_type) == templates

\* The two fallback texts of _render_template's except clauses.
FormatFallback(msg_type, message_dict) ==
    <<"*">>
    \o escape_markdown_v2(Str(FormatErrorPrefix \o PyStr(msg_type) \o <<")">>)).text
    \o <<"*", "\n", Backquote, Backquote, Backquote, "\n">>
    \o JsonDumpsIndent(message_dict)
    \o <<"\n", Backquote, Backquote, Backquote>>

InternalFallback(msg_type) ==
    <<"*">>
    \o escape_markdown_v2(Str(InternalErrorPrefix \o PyStr(msg_type) \o <<")">>)).text
    \o <<"*">>

\* TelegramForwarder._render_template(message_dict): [exc, text, templates],
\* templates being self.templates after the call.  The context is built
\* outside the try block, so what it raises leaves the method; what
\* format_map raises is turned into one of the two fallback texts.
_render_template(templates, message_dict) ==
    LET Caught(msg_type, formatted) ==
            IF formatted.exc = "" THEN formatted
            ELSE IF formatted.exc \in {"KeyError", "ValueError", "TypeError"}
            THEN [exc |-> "", text |-> FormatFallback(msg_type, message_dict)]
            ELSE [exc |-> "", text |-> InternalFallback(msg_type)]
        Substitute(msg_type, template_str, prepared) ==
            IF prepared.exc # "" THEN [exc |-> prepared.exc, text |-> <<>>]
            ELSE Caught(msg_type, format_map(template_str, prepared.context))
        Render(msg_type, template_str) ==
            IF template_str = <<>>
            THEN [exc |-> "",
                  text |-> NoTemplatePrefix \o PyStr(msg_type) \o NoTemplateSuffix]
            ELSE Substitute(msg_type, template_str,
                            _prepare_render_context(message_dict))
        Returned(rendered, after) ==
            [exc |-> rendered.exc, text |-> rendered.text, templates |-> after]
        Select(msg_type) ==
            Returned(Render(msg_type, SelectTemplate(templates, msg_type)),
                     TemplatesAfter(templates, msg_type))
    IN  Select(GetOr(message_dict, "type", Str(S_unknown)))

\* ------------------------------------------------ forwarder.py: delivery
\* What requests.post / raise_for_status does on one call.
PostOutcomes == {"ok", "Timeout", "HTTPError", "RequestException", "Exception"}

\* SendExcept without the final `except Exception` clause.
SendExceptRequestsOnly(post) ==
    [caught |-> post \in {"Timeout", "HTTPError", "RequestException"},
     returned |-> FALSE]

\* The except clauses of send_text's try: Timeout, HTTPError,
\* RequestException and Exception; each logs at error level and returns False.
SendExcept(post) ==
    [caught |-> post \in {"Timeout", "HTTPError", "RequestException", "Exception"},
     returned |-> FALSE]

\* TelegramForwarder.send_text(text, parse_mode): [exc, returned].  One POST;
\* True on a success status, and what the POST raises goes to the except
\* clauses.
send_text(text, post) ==
    LET Handled(handler) ==
            IF handler.caught THEN [exc |-> "", returned |-> handler.returned]
            ELSE [exc |-> post, returned |-> FALSE]
    IN  IF post = "ok" THEN [exc |-> "", returned |-> TRUE]
        ELSE Handled(SendExcept(post))

\* TelegramForwarder.send_message(message_dict): [sent, templates], sent being
\* [exc, text, posts, returned] and templates self.templates after the call.
\* A render that raises never reaches send_text.
send_message(templates, message_dict, post) ==
    LET Posted(text, result) ==
            [exc |-> result.exc, text |-> text, posts |-> 1,
             returned |-> IF result.exc # "" THEN "raised"
                          ELSE IF result.returned THEN "True" ELSE "False"]
        Send(rendered_message) ==
            [sent |-> IF rendered_message.exc # ""
                      THEN [exc |-> rendered_message.exc, text |-> <<>>,
                            posts |-> 0, returned |-> "raised"]
                      ELSE Posted(rendered_message.text,
                                  send_text(rendered_message.text, post)),
             templates |-> rendered_message.templates]
    IN  Send(_render_template(templates, message_dict))

\* --------------------------------------------- forwarder.py: construction
\* What the GET of getMe does: a success answer, a timeout, a transport
\* error, an error status (raise_for_status), an answer with ok false, an
\* answer that is no JSON object (bot_info.get raises AttributeError).
GetMeOutcomes ==
    {"ok", "Timeout", "ConnectionError", "HTTPError", "not_ok", "AttributeError"}

\* TelegramForwarder.test_connection(): the exception it raises, "" for
\* none.  What requests raises is turned into ValueError, an answer with ok
\* false raises ValueError, and `except Exception` logs and raises again
\* what it caught.
test_connection(getme) ==
    CASE getme = "ok" -> ""
      [] getme \in {"Timeout", "ConnectionError", "HTTPError"} -> "ValueError"
      [] getme = "not_ok" -> "ValueError"
      [] OTHER -> getme

Placeholder == "SET_VIA_ENV_OR_CONFIG"

\* TelegramForwarder(telegram_config): [exc, check].  telegram_config is
\* [bot_token, chat_id, templates], templates being <<>> when the attribute
\* is missing and <<dict>> otherwise.  ValueError for a missing template
\* dict, a token or chat id that is empty or the placeholder, or a template
\* dict without 'default'; then the self-check runs, and the ValueError it
\* raises is logged as a warning.  check is the answer the self-check got,
\* "none" when it did not run.
TelegramForwarder(telegram_config, getme) ==
    LET Checked(raised) ==
            [exc |-> IF raised = "ValueError" THEN "" ELSE raised, check |-> getme]
    IN  IF telegram_config.templates = <<>>
           \/ telegram_config.bot_token \in {"", Placeholder}
           \/ telegram_config.chat_id \in {"", Placeholder}
           \/ S_default \notin DOMAIN telegram_config.templates[1]
        THEN [exc |-> "ValueError", check |-> "none"]
        ELSE Checked(test_connection(getme))

\* ------------------------------------------------------------ database.py
\* What sqlite3.connect and the table setup do, and what connection.close()
\* does.
ConnectOutcomes == {"ok", "sqlite3.Error", "OSError"}
CloseOutcomes == {"ok", "sqlite3.Error"}

\* A connect that connects again whatever the state of the handler.
connect_always(db, outcome) ==
    IF db.kind = "MockDatabaseHandler" THEN [exc |-> "", opened |-> FALSE, db |-> db]
    ELSE IF outcome = "ok"
    THEN [exc |-> "", opened |-> TRUE, db |-> [db EXCEPT !.connection = TRUE]]
    ELSE [exc |-> outcome, opened |-> FALSE, db |-> [db EXCEPT !.connection = FALSE]]

\* DatabaseHandler.connect(): [exc, opened, db].  Nothing is done on a
\* handler that is connected; a failure resets self.connection to None and
\* is raised again.  opened tells whether a new connection was made.
connect(db, outcome) ==
    IF db.kind = "MockDatabaseHandler" \/ db.connection
    THEN [exc |-> "", opened |-> FALSE, db |-> db]
    ELSE IF outcome = "ok"
    THEN [exc |-> "", opened |-> TRUE, db |-> [db EXCEPT !.connection = TRUE]]
    ELSE [exc |-> outcome, opened |-> FALSE, db |-> [db EXCEPT !.connection = FALSE]]

\* DatabaseHandler.close(): the handler afterwards.  self.connection is set
\* to None after connection.close() has returned; when that raises
\* sqlite3.Error the error is logged and self.connection stays as it is.
close(db, outcome) ==
    IF db.kind = "DatabaseHandler" /\ db.connection /\ outcome = "ok"
    THEN [db EXCEPT !.connection = FALSE]
    ELSE db

\* The parameters a call must name: DatabaseHandler.save_message
\* (database.py) and the MockDatabaseHandler.save_message of listener.py's
\* stand-alone test run.
SaveMessageParams(kind) ==
    IF kind = "DatabaseHandler"
    THEN {"received_time", "msg_type", "source", "raw_message_str"}
    ELSE {"msg_id", "source", "dest", "msg_type", "received_time", "raw_message_str"}

\* db_handler.save_message(**kwargs): [exc, lastrowid, db].  A keyword the
\* signature does not have is a TypeError before the body runs.  The body
\* raises sqlite3.Error without a connection or when the engine fails, and
\* otherwise inserts one row and returns its id.  The mock only logs.
save_message(db, kwargs, engine_error) ==
    IF DOMAIN kwargs # SaveMessageParams(db.kind)
    THEN [exc |-> "TypeError", lastrowid |-> 0, db |-> db]
    ELSE IF db.kind = "MockDatabaseHandler"
    THEN [exc |-> "", lastrowid |-> 0, db |-> db]
    ELSE IF ~db.connection \/ engine_error
    THEN [exc |-> "sqlite3.Error", lastrowid |-> 0, db |-> db]
    ELSE LET row == [id |-> Len(db.rows) + 1,
                     received_at |-> kwargs.received_time,
                     message_type |-> kwargs.msg_type,
                     source |-> kwargs.source,
                     raw_message |-> kwargs.raw_message_str]
         IN  [exc |-> "", lastrowid |-> row.id,
              db |-> [db EXCEPT !.rows = Append(@, row)]]

\* ------------------------------------------- listener.py: _handle_packet
\* data.decode('utf-8'): [exc, message_str]
decode(data) ==
    IF data.utf8 THEN [exc |-> "", message_str |-> data.text]
    ELSE [exc |-> "UnicodeDecodeError", message_str |-> data.text]

\* json.loads(message_str): [exc, message_dict, kind]
json_loads(message_str) ==
    IF message_str.kind = "invalid"
    THEN [exc |-> "JSONDecodeError", kind |-> "invalid", message_dict |-> message_str.obj]
    ELSE [exc |-> "", kind |-> message_str.kind, message_dict |-> message_str.obj]

\* msg_type in store_types
InList(v, list) == \E i \in 1..Len(list) : PyEq(v, Str(list[i]))

\* StoreExcept with the `except sqlite3.Error` clause alone.
StoreExceptSqliteOnly(exc) == [caught |-> exc = "sqlite3.Error", level |-> "error"]

\* The except clauses of the try around save_message: sqlite3.Error and
\* then Exception, both logging at error level.
StoreExcept(exc) == [caught |-> TRUE, level |-> "error"]

\* PacketExcept without the final `except Exception` clause.
PacketExceptNoCatchAll(exc) ==
    [caught |-> exc \in {"UnicodeDecodeError", "JSONDecodeError"}, level |-> "warning"]

\* PacketExcept with the catch-all clause alone.
PacketExceptCatchAllOnly(exc) == [caught |-> TRUE, level |-> "error"]

\* The except clauses of the outer try of _handle_packet.
PacketExcept(exc) ==
    CASE exc = "UnicodeDecodeError" -> [caught |-> TRUE, level |-> "warning"]
      [] exc = "JSONDecodeError" -> [caught |-> TRUE, level |-> "warning"]
      [] OTHER -> [caught |-> TRUE, level |-> "error"]

\* Step 5 of _handle_packet: [exc, calls, lastrowid, call_exc, logs, db].
\* exc is what leaves the step (the extraction runs outside the inner try).
StoreStep(message_dict, message_str, received_time, db, store_types, engine_error) ==
    LET Handled(kwargs, saved, handler) ==
            IF saved.exc = ""
            THEN [exc |-> "", calls |-> <<kwargs>>, lastrowid |-> saved.lastrowid,
                  call_exc |-> "", logs |-> {}, db |-> saved.db]
            ELSE [exc |-> IF handler.caught THEN "" ELSE saved.exc,
                  calls |-> <<kwargs>>, lastrowid |-> 0, call_exc |-> saved.exc,
                  logs |-> IF handler.caught THEN {handler.level} ELSE {},
                  db |-> saved.db]
        Saved(kwargs, saved) == Handled(kwargs, saved, StoreExcept(saved.exc))
        Call(kwargs) == Saved(kwargs, save_message(db, kwargs, engine_error))
        Extract(msg_type, source_raw, dst) ==
            IF ~InList(msg_type, store_types)
            THEN [exc |-> "", calls |-> <<>>, lastrowid |-> 0, call_exc |-> "",
                  logs |-> {}, db |-> db]
            ELSE IF Truthy(source_raw) /\ source_raw.t # "str"
            THEN [exc |-> "AttributeError", calls |-> <<>>, lastrowid |-> 0,
                  call_exc |-> "", logs |-> {}, db |-> db]
            ELSE Call([msg_id |-> Get(message_dict, "msg_id"),
                       source |-> IF Truthy(source_raw)
                                  THEN Str(Strip(SplitFirst(source_raw.s, ",")))
                                  ELSE None,
                       dest |-> IF Truthy(dst) THEN dst ELSE None,
                       msg_type |-> msg_type,
                       received_time |-> received_time,
                       raw_message_str |-> message_str])
    IN  Extract(Get(message_dict, "type"), Get(message_dict, "src"),
                Get(message_dict, "dst"))

\* RuleMatches without the `not in rule` tests: a predicate the rule does not
\* have is compared like any other.
RuleMatchesNoAbsent(rule, msg_type, msg_dst) ==
    PyEq(Get(rule, "type"), msg_type) /\ PyEq(Get(rule, "dst"), msg_dst)

\* One rule's conditions (listener.py lines 102-103).
RuleMatches(rule, msg_type, msg_dst) ==
    LET type_match == ~HasKey(rule, "type") \/ PyEq(Get(rule, "type"), msg_type)
        dst_match == ~HasKey(rule, "dst") \/ PyEq(Get(rule, "dst"), msg_dst)
    IN  type_match /\ dst_match

\* RuleLoop without the break: every matching rule sends.
RECURSIVE RuleLoopNoBreak(_, _, _, _)
RuleLoopNoBreak(forwarding_rules, i, msg_type, msg_dst) ==
    LET Add(hit, rest) ==
            [evaluated |-> <<i>> \o rest.evaluated,
             fired |-> (IF hit THEN <<i>> ELSE <<>>) \o rest.fired]
    IN  IF i > Len(forwarding_rules) THEN [evaluated |-> <<>>, fired |-> <<>>]
        ELSE Add(RuleMatches(forwarding_rules[i], msg_type, msg_dst),
                 RuleLoopNoBreak(forwarding_rules, i + 1, msg_type, msg_dst))

\* for i, rule in enumerate(forwarding_rules): ... break
\* [evaluated, fired]: the indexes whose conditions were computed, in order,
\* and the indexes at which send_message was called.
RECURSIVE RuleLoop(_, _, _, _)
RuleLoop(forwarding_rules, i, msg_type, msg_dst) ==
    IF i > Len(forwarding_rules) THEN [evaluated |-> <<>>, fired |-> <<>>]
    ELSE IF RuleMatches(forwarding_rules[i], msg_type, msg_dst)
    THEN [evaluated |-> <<i>>, fired |-> <<i>>]
    ELSE LET rest == RuleLoop(forwarding_rules, i + 1, msg_type, msg_dst)
         IN  [evaluated |-> <<i>> \o rest.evaluated, fired |-> rest.fired]

NotSent == [exc |-> "", text |-> <<>>, posts |-> 0, returned |-> "none"]

\* Step 6 of _handle_packet:
\* [reached, evaluated, fired, send_calls, sent, logs, templates].
\* send_message is called once per fired index; what it raises is caught
\* and logged at error level.
ForwardStep(message_dict, forwarder, forwarding_rules, templates, post) ==
    LET Sent(loop, called) ==
            [reached |-> TRUE, evaluated |-> loop.evaluated, fired |-> loop.fired,
             send_calls |-> [k \in 1..Len(loop.fired) |-> message_dict],
             sent |-> called.sent,
             logs |-> IF called.sent.exc # "" \/ called.sent.returned = "False"
                      THEN {"error"} ELSE {},
             templates |-> called.templates]
        Matched(loop) ==
            IF loop.fired = <<>>
            THEN [reached |-> TRUE, evaluated |-> loop.evaluated, fired |-> <<>>,
                  send_calls |-> <<>>, sent |-> NotSent, logs |-> {},
                  templates |-> templates]
            ELSE Sent(loop, send_message(templates, message_dict, post))
    IN  IF forwarder = "None" \/ forwarding_rules = <<>>
        THEN [reached |-> FALSE, evaluated |-> <<>>, fired |-> <<>>,
              send_calls |-> <<>>, sent |-> NotSent, logs |-> {},
              templates |-> templates]
        ELSE Matched(RuleLoop(forwarding_rules, 1, Get(message_dict, "type"),
                              Get(message_dict, "dst")))

\* Outcome in which a delivery that did not succeed undoes the insert call.
OutcomeDeliveryGated(exc, parsed, store, forward) ==
    LET Kept == forward.sent.returned \in {"none", "True"}
        Logged(handler) ==
            [exc |-> exc,
             escaped |-> IF exc # "" /\ ~handler.caught THEN exc ELSE "",
             parsed |-> parsed,
             logs |-> (IF parsed THEN {"info"} ELSE {})
                      \cup (IF exc # "" /\ handler.caught THEN {handler.level} ELSE {})
                      \cup store.logs \cup forward.logs,
             store_calls |-> IF Kept THEN store.calls ELSE <<>>,
             lastrowid |-> IF Kept THEN store.lastrowid ELSE 0,
             store_exc |-> store.call_exc,
             forward_reached |-> forward.reached,
             evaluated |-> forward.evaluated, fired |-> forward.fired,
             send_calls |-> forward.send_calls, sent |-> forward.sent]
    IN  Logged(PacketExcept(exc))

\* What one call of _handle_packet did.
Outcome(exc, parsed, store, forward) ==
    LET Logged(handler) ==
            [exc |-> exc,
             escaped |-> IF exc # "" /\ ~handler.caught THEN exc ELSE "",
             parsed |-> parsed,
             logs |-> (IF parsed THEN {"info"} ELSE {})
                      \cup (IF exc # "" /\ handler.caught THEN {handler.level} ELSE {})
                      \cup store.logs \cup forward.logs,
             store_calls |-> store.calls, lastrowid |-> store.lastrowid,
             store_exc |-> store.call_exc,
             forward_reached |-> forward.reached,
             evaluated |-> forward.evaluated, fired |-> forward.fired,
             send_calls |-> forward.send_calls, sent |-> forward.sent]
    IN  Logged(PacketExcept(exc))

NoStore(db) ==
    [exc |-> "", calls |-> <<>>, lastrowid |-> 0, call_exc |-> "", logs |-> {},
     db |-> db]

NoForward ==
    [reached |-> FALSE, evaluated |-> <<>>, fired |-> <<>>, send_calls |-> <<>>,
     sent |-> NotSent, logs |-> {}]

\* _handle_packet(...): [out, db, templates].  The first exception ends the try block;
\* a payload that parses to something other than a JSON object has no .get
\* and raises AttributeError at step 4.
_handle_packet(data, received_time, db, forwarder, store_types, forwarding_rules, templates, engine_error, post) ==
    LET Forwarded(store, forward) ==
            [out |-> Outcome("", TRUE, store, forward), db |-> store.db,
             templates |-> forward.templates]
        Stored(message_dict, store) ==
            IF store.exc # ""
            THEN [out |-> Outcome(store.exc, TRUE, store, NoForward), db |-> store.db,
                  templates |-> templates]
            ELSE Forwarded(store, ForwardStep(message_dict, forwarder,
                                              forwarding_rules, templates, post))
        Loaded(message_str, loaded) ==
            IF loaded.exc # ""
            THEN [out |-> Outcome(loaded.exc, FALSE, NoStore(db), NoForward),
                  db |-> db, templates |-> templates]
            ELSE IF loaded.kind # "object"
            THEN [out |-> Outcome("AttributeError", TRUE, NoStore(db), NoForward),
                  db |-> db, templates |-> templates]
            ELSE Stored(loaded.message_dict,
                        StoreStep(loaded.message_dict, message_str, received_time,
                                  db, store_types, engine_error))
        Decoded(decoded) ==
            IF decoded.exc # ""
            THEN [out |-> Outcome(decoded.exc, FALSE, NoStore(db), NoForward),
                  db |-> db, templates |-> templates]
            ELSE Loaded(decoded.message_str, json_loads(decoded.message_str))
    IN  Decoded(decode(data))

\* ------------------------------------------------------------------ inputs
Keys == {KeyOrder[i] : i \in 1..Len(KeyOrder)}

EmptyMessage == [k \in Keys |-> <<>>]

\* "A-1 ,R": a node id with the comma suffix of the mesh network.
SrcWithSuffix == <<"A", "-", "1", " ", ",", "R">>

TypeOpts == {<<>>, <<Str(S_msg)>>, <<Str(S_unknown)>>}
DstOpts == {<<>>, <<Str(S_ADMIN)>>, <<Str(<<>>)>>}
SrcOpts == {<<>>, <<Str(SrcWithSuffix)>>, <<Num(5)>>}

\* A message of a type no template is written for, whose text starts with a
\* backslash and two reserved characters and goes on with n letters.
S_ack == <<"a", "c", "k">>
Padding(n) == [i \in 1..n |-> "x"]
PaddedMessage(n) ==
    [EmptyMessage EXCEPT !["type"] = <<Str(S_ack)>>,
                         !["msg"] = <<Str(<<"\\", "_", "!">> \o Padding(n))>>]

\* The n for which the compact JSON of PaddedMessage(n) has exactly
\* RawJsonMax characters.
FitPad == RawJsonMax - Len(JsonDumpsCompact(PaddedMessage(0)))

\* A position report from latitude 0, longitude 0, altitude 0.
ZeroPosition ==
    [EmptyMessage EXCEPT !["type"] = <<Str(S_pos)>>, !["lat"] = <<Num(0)>>,
                         !["long"] = <<Num(0)>>, !["alt"] = <<Num(0)>>]

Messages ==
    {[EmptyMessage EXCEPT !["type"] = ty, !["dst"] = ds, !["src"] = sr] :
        ty \in TypeOpts, ds \in DstOpts, sr \in SrcOpts}
    \cup
    {[EmptyMessage EXCEPT !["type"] = <<Str(S_pos)>>, !["src"] = <<Str(SrcWithSuffix)>>,
                          !["lat"] = <<Num(48)>>, !["long"] = <<Num(16)>>,
                          !["alt"] = <<Num(512)>>],
     [EmptyMessage EXCEPT !["type"] = <<Str(S_msg)>>, !["dst"] = <<Str(S_ADMIN)>>,
                          !["msg"] = <<Str(<<"h", "i", "!">>)>>,
                          !["msg_id"] = <<Str(<<"7">>)>>],
     [EmptyMessage EXCEPT !["type"] = <<None>>, !["msg"] = <<Bool(TRUE)>>],
     [EmptyMessage EXCEPT !["type"] = <<Str(S_msg)>>, !["src"] = <<Str(<<>>)>>],
     PaddedMessage(FitPad), PaddedMessage(FitPad + 1), ZeroPosition}

\* The payloads of a datagram: bytes that are not UTF-8, text that is not
\* JSON, JSON that is not an object, and JSON objects.
Packets ==
    {[utf8 |-> FALSE, text |-> [kind |-> "invalid", obj |-> EmptyMessage]]}
    \cup {[utf8 |-> TRUE, text |-> [kind |-> k, obj |-> EmptyMessage]] :
            k \in {"invalid", "array", "string", "number", "bool", "null"}}
    \cup {[utf8 |-> TRUE, text |-> [kind |-> "object", obj |-> m]] : m \in Messages}

NoData == [utf8 |-> TRUE, text |-> [kind |-> "none", obj |-> EmptyMessage]]

\* listener.store_types
StoreTypeOpts == {<<S_msg>>, <<S_msg, S_unknown>>}

\* forwarding.rules: each rule a dict with optional 'type' and 'dst' strings.
Rule(ty, ds) == [type |-> ty, dst |-> ds]
RuleSet ==
    {Rule(<<>>, <<>>), Rule(<<Str(S_msg)>>, <<Str(S_ADMIN)>>),
     Rule(<<Str(S_unknown)>>, <<>>)}
\* The rule lists drawn: up to MaxRules rules, none twice (a repeated rule
\* can never fire, the first copy matches whatever the second would).
RuleLists ==
    {rules \in UNION {[1..n -> RuleSet] : n \in 0..MaxRules} :
        \A i, j \in 1..Len(rules) : i # j => rules[i] # rules[j]}

\* forwarding.telegram.templates
TemplateOpts ==
    {(S_default :> <<Lit("T"), Lit(":"), Field("type"), Lit(" "),
                     Lit(Backquote), Field("src"), Lit(Backquote)>>)
        @@ (S_pos :> <<>>),
     (S_default :> <<Field("msg")>>)
        @@ (S_unknown :> <<Lit("U"), Field("dst"), Field("hw_id")>>)
        @@ (S_msg :> <<Lit("M"), StrayBrace>>)
        @@ (S_pos :> <<AttrField("src")>>)}

\* Template sets a forwarder should not be built with: one whose default
\* is the empty string and one without a default.
OddTemplateOpts ==
    {(S_default :> <<>>) @@ (S_msg :> <<Lit("M"), Field("msg")>>),
     (S_msg :> <<Lit("M"), Field("msg")>>)}

\* ------------------------------------------------------------------- state
VARIABLES
    store_types,        \* listener_config.store_types
    forwarding_rules,   \* forwarding_config.rules
    templates,          \* forwarding_config.telegram.templates
    forwarding_enabled, \* forwarding_config.enabled
    forwarder_instance, \* "TelegramForwarder" or "None"
    startup,            \* what the forwarder initialisation did: [exc, check,
                        \* notified]; logged, and gone when the socket is set up
    db_handler,         \* [kind, connection, rows]
    sock,               \* the receive socket: "none", "open" or "closed"
    pc,                 \* where the program is: "main" before the handler is
                        \* entered; in start_udp_listener "init", "bind", then
                        \* "recv", "handle", "done", "sleep" in the loop,
                        \* "closing" in the finally block, "returned", "raised"
                        \* or "interrupted" when left; "exited" at the end
    data,               \* the datagram of this iteration
    clock,              \* datagrams received so far (received_time)
    out,                \* what _handle_packet did with this datagram
    hadError,           \* an earlier datagram of this run raised somewhere
    db_call             \* the last call a client made on the handler itself
                        \* (database.py run on its own): [op, exc, opened,
                        \* lastrowid] and the handler's connection and number
                        \* of rows before the call

vars == <<store_types, forwarding_rules, templates, forwarding_enabled,
          forwarder_instance, startup, db_handler, sock, pc, data, clock, out,
          hadError, db_call>>

config == <<store_types, forwarding_rules, templates, forwarding_enabled,
            forwarder_instance, startup>>

NoOutcome == Outcome("", FALSE, NoStore(0), NoForward)

NoStartup == [exc |-> "", check |-> "none", notified |-> FALSE]

NoCall ==
    [op |-> "none", exc |-> "", opened |-> FALSE, lastrowid |-> 0,
     connected |-> FALSE, rows |-> 0]

\* An exception was raised somewhere while the datagram was handled.
ErrorIn(o) == o.exc # "" \/ o.store_exc # "" \/ o.sent.exc # "" \/ o.sent.returned = "False"

\* The program starts with the configuration loaded, the handler made and
\* not connected (main.py; the stand-alone run of listener.py makes the
\* mock), no forwarder and no socket.
Init ==
    /\ \/ /\ store_types \in StoreTypeOpts
          /\ forwarding_rules \in RuleLists
          /\ templates \in TemplateOpts
          /\ forwarding_enabled = TRUE
          /\ db_handler \in
               {[kind |-> "DatabaseHandler", connection |-> FALSE, rows |-> <<>>],
                [kind |-> "MockDatabaseHandler", connection |-> FALSE, rows |-> <<>>]}
       \/ /\ store_types \in StoreTypeOpts
          /\ forwarding_rules \in {<<>>, <<Rule(<<>>, <<>>)>>}
          /\ templates \in TemplateOpts \cup OddTemplateOpts
          /\ forwarding_enabled \in BOOLEAN
          /\ db_handler = [kind |-> "DatabaseHandler", connection |-> FALSE,
                           rows |-> <<>>]
    /\ forwarder_instance = "None"
    /\ startup = NoStartup
    /\ sock = "none"
    /\ pc = "main"
    /\ data = NoData
    /\ clock = 0
    /\ out = NoOutcome
    /\ hadError = FALSE
    /\ db_call = NoCall

\* with db_handler: __enter__ connects.  What connect raises ends the
\* program before the listener is started.
EnterWith ==
    /\ pc = "main"
    /\ \E outcome \in ConnectOutcomes :
         LET Entered(r) ==
                 /\ db_handler' = r.db
                 /\ pc' = IF r.exc = "" THEN "init" ELSE "exited"
         IN  Entered(connect(db_handler, outcome))
    /\ UNCHANGED <<db_call, config, sock, data, clock, out, hadError>>

\* A check that builds the forwarder whatever forwarding.enabled says.
ForwardingOnAlways(enabled, forwarder_class) == forwarder_class # "None"

\* if forwarding_config.enabled: if TelegramForwarder:
ForwardingOn(enabled, forwarder_class) == enabled /\ forwarder_class # "None"

\* "*MeshCom Listener* gestartet\!"
StartupText ==
    <<"*", "M", "e", "s", "h", "C", "o", "m", " ", "L", "i", "s", "t", "e", "n",
      "e", "r", "*", " ", "g", "e", "s", "t", "a", "r", "t", "e", "t", "\\", "!">>

\* The forwarder initialisation of start_udp_listener.  When forwarding is
\* enabled and the class was imported, the forwarder is built and the
\* start-up notice is sent; whatever that raises is logged and leaves
\* forwarder_instance None.
InitForwarder ==
    /\ pc = "init"
    /\ \E forwarder_class \in {"TelegramForwarder", "None"},
          bot_token \in {"token", "", Placeholder},
          chat_id \in {"chat", Placeholder},
          has_templates \in BOOLEAN,
          getme \in GetMeOutcomes,
          post \in PostOutcomes :
         LET Built(made, notice) ==
                 LET exc == IF made.exc # "" THEN made.exc ELSE notice.exc
                 IN  /\ forwarder_instance' =
                            IF exc = "" THEN "TelegramForwarder" ELSE "None"
                     /\ startup' = [exc |-> exc, check |-> made.check,
                                    notified |-> made.exc = ""]
         IN  IF ForwardingOn(forwarding_enabled, forwarder_class)
             THEN Built(TelegramForwarder(
                            [bot_token |-> bot_token, chat_id |-> chat_id,
                             templates |-> IF has_templates THEN <<templates>>
                                           ELSE <<>>], getme),
                        send_text(StartupText, post))
             ELSE /\ forwarder_instance' = "None"
                  /\ startup' = NoStartup
    /\ pc' = "bind"
    /\ UNCHANGED <<db_call, store_types, forwarding_rules, templates, forwarding_enabled,
                   db_handler, sock, data, clock, out, hadError>>

\* sock = socket.socket(...); sock.setsockopt(...); sock.bind((host, port))
Bind ==
    /\ pc = "bind"
    /\ sock' = "open"
    /\ pc' = "recv"
    /\ startup' = NoStartup
    /\ UNCHANGED <<db_call, store_types, forwarding_rules, templates, forwarding_enabled,
                   forwarder_instance, db_handler, data, clock, out, hadError>>

\* The socket cannot be made or cannot be bound: the error is logged and
\* raised again, and the finally block closes the socket if there is one.
BindFails ==
    /\ pc = "bind"
    /\ \E stage \in {"socket", "bind"} :
         sock' = IF stage = "socket" THEN "none" ELSE "closed"
    /\ pc' = "raised"
    /\ startup' = NoStartup
    /\ UNCHANGED <<db_call, store_types, forwarding_rules, templates, forwarding_enabled,
                   forwarder_instance, db_handler, data, clock, out, hadError>>

\* A receive that is issued while the last datagram is still being handled.
ReceiveWhileHandling ==
    /\ pc \in {"recv", "handle"}
    /\ clock < MaxPackets
    /\ data' \in Packets
    /\ clock' = clock + 1
    /\ pc' = "handle"
    /\ UNCHANGED <<db_call, config, db_handler, sock, out, hadError>>

\* data, addr = sock.recvfrom(buffer_size); received_time = datetime.now()
Receive ==
    /\ pc = "recv"
    /\ clock < MaxPackets
    /\ data' \in Packets
    /\ clock' = clock + 1
    /\ pc' = "handle"
    /\ UNCHANGED <<db_call, config, db_handler, sock, out, hadError>>

\* What the loop can raise besides the interrupt.
LoopErrors == {"socket.error", "Exception"}

\* A loop whose socket errors are raised again.
LoopExceptSocketFatal(exc) == [continue |-> exc # "socket.error"]

\* The loop's `except socket.error` and `except Exception`: each logs,
\* sleeps a second and lets the loop go on.
LoopExcept(exc) == [continue |-> exc \in LoopErrors]

\* recvfrom raises: the except clause logs and sleeps.
ReceiveFails ==
    /\ pc = "recv"
    /\ \E exc \in LoopErrors :
         IF LoopExcept(exc).continue
         THEN pc' = "sleep" /\ sock' = sock
         ELSE pc' = "raised" /\ sock' = "closed"
    /\ UNCHANGED <<db_call, config, db_handler, data, clock, out, hadError>>

\* What the storage engine can do on an insert (the mock has no engine).
EngineOutcomes(db) == IF db.kind = "DatabaseHandler" THEN BOOLEAN ELSE {FALSE}

\* What the POST of this iteration can do (without a forwarder or without
\* rules step 6 is skipped and no POST is made).
PostChoices ==
    IF forwarder_instance = "None" \/ forwarding_rules = <<>> THEN {"ok"}
    ELSE PostOutcomes

\* _handle_packet(data, addr, received_time, db_handler, forwarder_instance,
\*                store_types, forwarding_rules); what leaves it goes to the
\* loop's except clauses.
HandlePacket ==
    /\ pc = "handle"
    /\ \E engine_error \in EngineOutcomes(db_handler), post \in PostChoices :
         LET Return(r) ==
                 /\ out' = r.out
                 /\ db_handler' = r.db
                 /\ templates' = r.templates
                 /\ pc' = IF r.out.escaped = "" THEN "done" ELSE "sleep"
         IN  Return(_handle_packet(data, clock, db_handler, forwarder_instance,
                                   store_types, forwarding_rules, templates,
                                   engine_error, post))
    /\ UNCHANGED <<db_call, store_types, forwarding_rules, forwarding_enabled,
                   forwarder_instance, startup, sock, data, clock, hadError>>

\* while True: the next iteration starts with the locals of the last one gone.
NextIteration ==
    /\ pc = "done"
    /\ pc' = "recv"
    /\ data' = NoData
    /\ out' = NoOutcome
    /\ hadError' = (hadError \/ ErrorIn(out))
    /\ UNCHANGED <<db_call, config, db_handler, sock, clock>>

\* time.sleep(1) is over: the loop goes on with the next receive.
Resume ==
    /\ pc = "sleep"
    /\ pc' = "recv"
    /\ data' = NoData
    /\ out' = NoOutcome
    /\ hadError' = (hadError \/ out.escaped # "")
    /\ UNCHANGED <<db_call, config, db_handler, sock, clock>>

\* KeyboardInterrupt while recvfrom blocks or while _handle_packet runs.  No
\* `except Exception` on the way catches it; the loop's
\* `except KeyboardInterrupt` logs and breaks, and control reaches the finally
\* block.  A handling that is cut short has made its insert call or has not.
Interrupt ==
    /\ pc \in {"recv", "handle", "done"}
    /\ pc' = "closing"
    /\ data' = NoData
    /\ out' = NoOutcome
    /\ IF pc = "handle"
       THEN \E engine_error \in EngineOutcomes(db_handler) :
              db_handler' \in
                {db_handler,
                 _handle_packet(data, clock, db_handler, "None", store_types,
                                forwarding_rules, templates, engine_error, "ok").db}
       ELSE db_handler' = db_handler
    /\ UNCHANGED <<db_call, config, sock, clock, hadError>>

\* KeyboardInterrupt during the sleep of an except clause: it is raised
\* outside the loop's try, no clause of the outer try catches it, the finally
\* block closes the socket and the interrupt leaves start_udp_listener.
InterruptSleep ==
    /\ pc = "sleep"
    /\ pc' = "interrupted"
    /\ sock' = "closed"
    /\ data' = NoData
    /\ out' = NoOutcome
    /\ UNCHANGED <<db_call, config, db_handler, clock, hadError>>

\* A finally block that leaves the socket as it is.
CloseSkipped ==
    /\ pc = "closing"
    /\ pc' = "returned"
    /\ UNCHANGED <<db_call, config, db_handler, sock, data, clock, out, hadError>>

\* finally: if sock: sock.close()
Close ==
    /\ pc = "closing"
    /\ sock' = "closed"
    /\ pc' = "returned"
    /\ UNCHANGED <<db_call, config, db_handler, data, clock, out, hadError>>

\* The with block is left: __exit__ calls close().  An error that left
\* start_udp_listener reaches main.py's `except Exception`, which calls
\* close() once more when the handler still has a connection.  The
\* stand-alone run of listener.py has no with block and closes nothing.
ExitWith ==
    /\ pc \in {"returned", "raised", "interrupted"}
    /\ \E first \in CloseOutcomes, second \in CloseOutcomes :
         LET left == close(db_handler, first)
         IN  db_handler' = IF pc = "raised" THEN close(left, second) ELSE left
    /\ pc' = "exited"
    /\ UNCHANGED <<db_call, config, sock, data, clock, out, hadError>>

Next ==
    \/ EnterWith \/ InitForwarder \/ Bind \/ BindFails
    \/ Receive \/ ReceiveFails \/ HandlePacket \/ NextIteration \/ Resume
    \/ Interrupt \/ InterruptSleep \/ Close \/ ExitWith

Spec == Init /\ [][Next]_vars

\* ---------------------------------------- database.py as its own program
\* A client that uses the handler directly, as the stand-alone run of
\* database.py does: connect (through `with` or by hand), save_message with
\* positional arguments, close, in any order.
DbInit ==
    /\ store_types = <<S_msg>>
    /\ forwarding_rules = <<>>
    /\ templates \in {t \in TemplateOpts : S_unknown \in DOMAIN t}
    /\ forwarding_enabled = FALSE
    /\ forwarder_instance = "None"
    /\ startup = NoStartup
    /\ db_handler = [kind |-> "DatabaseHandler", connection |-> FALSE, rows |-> <<>>]
    /\ sock = "none"
    /\ pc = "client"
    /\ data = NoData
    /\ clock = 0
    /\ out = NoOutcome
    /\ hadError = FALSE
    /\ db_call = NoCall

\* The (msg_type, source) pairs the client saves.
SaveChoices == {<<Str(S_msg), Str(SrcWithSuffix)>>, <<Str(S_pos), Str(<<>>)>>, <<None, None>>}

\* handler.connect(), or __enter__ on a handler without connection
DbConnect ==
    /\ pc = "client"
    /\ \E outcome \in ConnectOutcomes :
         LET Called(r) ==
                 /\ db_handler' = r.db
                 /\ db_call' = [op |-> "connect", exc |-> r.exc, opened |-> r.opened,
                                lastrowid |-> 0,
                                connected |-> db_handler.connection,
                                rows |-> Len(db_handler.rows)]
         IN  Called(connect(db_handler, outcome))
    /\ UNCHANGED <<config, sock, pc, data, clock, out, hadError>>

\* handler.save_message(received_time, msg_type, source, raw_message_str)
DbSaveMessage ==
    /\ pc = "client"
    /\ clock < MaxPackets
    /\ clock' = clock + 1
    /\ \E choice \in SaveChoices, engine_error \in BOOLEAN :
         LET Called(r) ==
                 /\ db_handler' = r.db
                 /\ db_call' = [op |-> "save_message", exc |-> r.exc,
                                opened |-> FALSE, lastrowid |-> r.lastrowid,
                                connected |-> db_handler.connection,
                                rows |-> Len(db_handler.rows)]
         IN  Called(save_message(db_handler,
                                 [received_time |-> clock + 1, msg_type |-> choice[1],
                                  source |-> choice[2],
                                  raw_message_str |-> <<"{", "}">>],
                                 engine_error))
    /\ UNCHANGED <<config, sock, pc, data, out, hadError>>

\* handler.close(), or __exit__
DbClose ==
    /\ pc = "client"
    /\ \E outcome \in CloseOutcomes :
         /\ db_handler' = close(db_handler, outcome)
         /\ db_call' = [op |-> "close", exc |-> "", opened |-> FALSE, lastrowid |-> 0,
                        connected |-> db_handler.connection,
                        rows |-> Len(db_handler.rows)]
    /\ UNCHANGED <<config, sock, pc, data, clock, out, hadError>>

DbNext == DbConnect \/ DbSaveMessage \/ DbClose

DbSpec == DbInit /\ [][DbNext]_vars

\* ================================================================== claims
\* The message of this iteration's datagram, when the payload is a JSON object.
IsObject == data.utf8 /\ data.text.kind = "object"
message == data.text.obj

Min(S) == CHOOSE x \in S : \A y \in S : x <= y

\* The rule's predicates as the specification states them: a predicate the
\* rule lacks holds, one it has holds when the message has that key with
\* that value.
Satisfies(rule, m, ty) ==
    /\ rule.type = <<>> \/ rule.type = ty
    /\ rule.dst = <<>> \/ rule.dst = m.dst

MatchingRules(ty) ==
    {i \in 1..Len(forwarding_rules) : Satisfies(forwarding_rules[i], message, ty)}

\* The rule that is to fire for the message, its type tag read as ty.
ExpectedFired(ty) ==
    IF forwarder_instance = "None" \/ MatchingRules(ty) = {} THEN <<>>
    ELSE <<Min(MatchingRules(ty))>>

\* Steps 1 to 5 went through and a forwarder exists: the rule loop decided.
MatcherRan ==
    pc = "done" /\ IsObject /\ out.exc = "" /\ forwarder_instance = "TelegramForwarder"

\* C1: the rule that fires for a message is the lowest-index rule of the list
\* whose type and dst predicates both hold (an absent predicate holds), and
\* no rule fires exactly when no rule satisfies both.
C1_FirstMatchFires == MatcherRan => out.fired = ExpectedFired(message.type)

\* C1 witness: a rule with a type predicate is passed over and the catch-all
\* in second place fires for a message that has neither type nor dst.
C1_Witness ==
    /\ MatcherRan
    /\ Len(forwarding_rules) = 2
    /\ forwarding_rules[1].type # <<>>
    /\ forwarding_rules[2] = Rule(<<>>, <<>>)
    /\ message.type = <<>> /\ message.dst = <<>>
    /\ out.fired = <<2>>

\* C2: per datagram send_message is called at most once and makes at most
\* one POST, the rules after the one that fired are not evaluated, and the
\* message sent is this datagram's, whatever the send returned or raised.
C2_AtMostOneSend ==
    pc = "done" =>
        /\ Len(out.send_calls) <= 1
        /\ out.sent.posts <= 1
        /\ \A k \in 1..Len(out.send_calls) : out.send_calls[k] = message
        /\ out.fired # <<>> =>
             out.evaluated = [k \in 1..out.fired[1] |-> k]

\* C2 witness: two rules match, the first one's send returned False, and
\* there was one send.
C2_Witness ==
    /\ MatcherRan
    /\ Cardinality(MatchingRules(message.type)) >= 2
    /\ out.sent.returned = "False"
    /\ Len(out.send_calls) = 1
    /\ out.evaluated = <<1>>

\* The type tag is a string of the store types.
TypeInStore(ty) ==
    ty # <<>> /\ ty[1].t = "str" /\ \E i \in 1..Len(store_types) : store_types[i] = ty[1].s

\* C3 (as claimed): for a parsed message the insert is invoked exactly once
\* when its type is in the store types and never otherwise.
C3_StoredIffTypeInStore ==
    (pc = "done" /\ IsObject) =>
        Len(out.store_calls) = IF TypeInStore(message.type) THEN 1 ELSE 0

\* C4 (as claimed): with the DatabaseHandler connected and no storage-engine
\* error, the insert call of the loop persists one new record and yields
\* its id.
C4_InsertPersists ==
    (/\ pc = "done"
     /\ db_handler.kind = "DatabaseHandler" /\ db_handler.connection
     /\ Len(out.store_calls) = 1
     /\ out.store_exc # "sqlite3.Error")
    => /\ out.lastrowid = Len(db_handler.rows)
       /\ out.lastrowid >= 1
       /\ db_handler.rows[out.lastrowid].raw_message = data.text

\* C5: when the insert raised, the rule that fires and the send that is made
\* are those the message and the rules determine.
C5_StoreFailureKeepsForwarding ==
    (pc = "done" /\ out.store_exc # "") =>
        /\ out.exc = ""
        /\ out.fired = ExpectedFired(message.type)
        /\ out.send_calls = [k \in 1..Len(out.fired) |-> message]

\* C5 witness: the insert raised and the message was forwarded and delivered.
C5_Witness ==
    /\ pc = "done"
    /\ out.store_exc # ""
    /\ out.fired # <<>>
    /\ out.sent.returned = "True"

\* The insert the message is due: one call when its type is stored and the
\* source extraction does not raise.
ExpectedStoreCalls ==
    IF TypeInStore(message.type)
       /\ (message.src = <<>> \/ ~Truthy(message.src[1]) \/ message.src[1].t = "str")
    THEN 1 ELSE 0

\* C6: no exception leaves _handle_packet, the loop goes on to the next
\* receive, and handling a datagram leaves what the handling of later
\* datagrams reads (forwarder, store types, rules, templates, the handler's
\* connection) as it was; a datagram handled after an error is stored.  Only
\* the interrupt, which is no error of a datagram, takes the loop to its end.
C6_Step ==
    /\ pc = "handle" /\ pc' # "handle" =>
         /\ pc' = "done" \/ (pc' = "closing" /\ sock' = "open")
         /\ out'.escaped = ""
         /\ UNCHANGED config
         /\ db_handler'.kind = db_handler.kind
         /\ db_handler'.connection = db_handler.connection
    /\ pc = "done" /\ pc' # "done" =>
         /\ pc' = "recv" \/ pc' = "closing"
         /\ UNCHANGED <<config, db_handler, sock>>

C6_LaterPacket ==
    (pc = "done" /\ hadError /\ IsObject /\ out.exc = "") =>
        /\ Len(out.store_calls) = ExpectedStoreCalls
        /\ out.fired = ExpectedFired(message.type)

C6_ErrorsIsolated == [](pc # "crashed" /\ C6_LaterPacket) /\ [][C6_Step]_vars

\* C6 witness: after a datagram that raised, a datagram is stored and forwarded.
C6_Witness ==
    /\ pc = "done"
    /\ hadError
    /\ out.exc = ""
    /\ Len(out.store_calls) = 1
    /\ Len(out.send_calls) = 1

\* C7: a payload that is not UTF-8 or not JSON is logged at warning level
\* and neither stored nor sent.
C7_UndecodableDropped ==
    (pc = "done" /\ (~data.utf8 \/ data.text.kind = "invalid")) =>
        /\ "warning" \in out.logs
        /\ "error" \notin out.logs
        /\ out.store_calls = <<>>
        /\ out.send_calls = <<>>
        /\ out.sent.posts = 0

\* C7 witness: a payload of valid UTF-8 that is not JSON has been handled.
C7_Witness ==
    /\ pc = "done"
    /\ data.utf8 /\ data.text.kind = "invalid"
    /\ out.exc = "JSONDecodeError"

\* C8 (as claimed): JSON that is not an object is logged at warning level
\* and neither stored nor sent.
C8_NonObjectWarned ==
    (pc = "done" /\ data.utf8
     /\ data.text.kind \in {"array", "string", "number", "bool", "null"}) =>
        /\ "warning" \in out.logs
        /\ out.store_calls = <<>>
        /\ out.send_calls = <<>>

\* C9 (as claimed): a message without a type key is stored exactly when
\* "unknown" is a store type, and the rule that fires for it is the one that
\* fires for type "unknown".
C9_AbsentTypeIsUnknown ==
    (pc = "done" /\ IsObject /\ message.type = <<>> /\ out.exc = "") =>
        /\ Len(out.store_calls) = IF TypeInStore(<<Str(S_unknown)>>) THEN 1 ELSE 0
        /\ out.fired = ExpectedFired(<<Str(S_unknown)>>)

\* C10 (as claimed): with a non-empty default template every render called
\* for a message returns a non-empty text and raises nothing.
C10_RenderTotal ==
    (pc = "done" /\ out.send_calls # <<>>
     /\ S_default \in DOMAIN templates /\ templates[S_default] # <<>>) =>
        /\ out.sent.exc = ""
        /\ out.sent.text # <<>>

\* C11: send_text returns True only when the single POST was answered with a
\* success status, returns False on a timeout, an error status, a transport
\* error or any other exception of the POST, and raises in none of these.
C11_SendSoftFailure ==
    (pc = "done" /\ out.sent.posts = 1) =>
        /\ out.sent.exc = ""
        /\ out.sent.returned \in {"True", "False"}
        /\ \A post \in PostOutcomes :
             send_text(out.sent.text, post) = [exc |-> "", returned |-> post = "ok"]

\* C11 witness: a POST was made for a datagram and send_message returned False.
C11_Witness ==
    /\ pc = "done"
    /\ out.sent.posts = 1
    /\ out.sent.returned = "False"
    /\ "error" \in out.logs

\* What a call of _handle_packet leaves in and asks of the store.
StoreView(r) == <<r.db, r.out.store_calls, r.out.lastrowid, r.out.store_exc>>

\* C12: whatever the POST of a datagram does, the insert call made for it and
\* the handler's contents after it are those of a handling whose POST
\* succeeded.
C12_DeliveryLeavesStore ==
    pc = "handle" =>
        \A engine_error \in EngineOutcomes(db_handler) :
            LET Run(post) ==
                    StoreView(_handle_packet(data, clock, db_handler, forwarder_instance,
                                             store_types, forwarding_rules, templates,
                                             engine_error, post))
                Same(view) == \A post \in PostOutcomes \ {"ok"} : Run(post) = view
            IN  Same(Run("ok"))

\* C12 witness: the insert call of a datagram returned and its delivery
\* returned False.
C12_Witness ==
    /\ pc = "done"
    /\ Len(out.store_calls) = 1
    /\ out.store_exc = ""
    /\ out.sent.posts = 1
    /\ out.sent.returned = "False"

\* C13: a datagram is received only when the handling of the one before it
\* is over, and every insert and send_message call is made while the
\* datagram it is for is the latest one received, so both kinds of call
\* follow the order of arrival.
C13_Step ==
    /\ clock' # clock =>
         /\ pc = "recv" /\ out = NoOutcome
         /\ clock' = clock + 1
         /\ out' = NoOutcome
    /\ (out' # out /\ out' # NoOutcome) =>
         /\ pc = "handle" /\ out = NoOutcome
         /\ clock' = clock /\ data' = data
         /\ \A k \in 1..Len(out'.store_calls) :
              /\ out'.store_calls[k].received_time = clock
              /\ out'.store_calls[k].raw_message_str = data.text
         /\ \A k \in 1..Len(out'.send_calls) : out'.send_calls[k] = data.text.obj

C13_ArrivalOrder == [][C13_Step]_vars

\* C13 witness: the second datagram has been stored and sent.
C13_Witness ==
    /\ pc = "done"
    /\ clock = 2
    /\ Len(out.store_calls) = 1
    /\ out.store_calls[1].received_time = 2
    /\ Len(out.send_calls) = 1

\* C14: once the interrupt has been taken nothing more is received, the
\* only step left is the close of the socket, and start_udp_listener has
\* returned only with the socket closed.
C14_Step ==
    /\ pc = "closing" =>
         /\ pc' = "returned"
         /\ clock' = clock /\ data' = data /\ out' = out
    /\ pc \in {"returned", "interrupted"} =>
         /\ pc' = "exited"
         /\ sock' = sock /\ clock' = clock /\ data' = data /\ out' = out

TypeTag == IF message.type = <<>> THEN Str(S_unknown) ELSE message.type[1]

\* templates[message.type] if present, else templates["default"].
ExpectedTemplate ==
    IF TypeTag.t = "str" /\ TypeTag.s \in DOMAIN templates
    THEN templates[TypeTag.s]
    ELSE templates[S_default]

\* A render was made for this datagram and returned a text.
Rendered == pc = "done" /\ out.send_calls # <<>> /\ out.sent.exc = ""

\* The template is literal text and placeholders only.
Plain(template_str) ==
    \A i \in 1..Len(template_str) : template_str[i].k \in {"lit", "field"}

\* The text of a field of the message: its string, empty when the key is
\* missing.
FieldText(name) == IF message[name] = <<>> THEN <<>> ELSE message[name][1].s

\* The placeholders of the template name string fields of the message.
StringFields(template_str) ==
    \A i \in 1..Len(template_str) :
        template_str[i].k = "field" =>
            /\ template_str[i].v \in {"src", "dst", "msg", "msg_id", "ack_id", "type"}
            /\ message[template_str[i].v] # <<>> => message[template_str[i].v][1].t = "str"
            /\ template_str[i].v = "type" => message.type # <<>>

\* Every reserved character and every backslash preceded by a backslash.
RECURSIVE Escaped(_)
Escaped(chars) ==
    IF Len(chars) = 0 THEN <<>>
    ELSE IF Len(chars) = 1
    THEN (IF chars[1] = "\\" \/ \E i \in 1..Len(escape_chars) : escape_chars[i] = chars[1]
          THEN <<"\\", chars[1]>> ELSE chars)
    ELSE LET half == Len(chars) \div 2
         IN  Escaped(SubSeq(chars, 1, half)) \o Escaped(SubSeq(chars, half + 1, Len(chars)))

\* The substring before the first comma.
BeforeComma(chars) ==
    LET commas == {i \in 1..Len(chars) : chars[i] = ","}
    IN  IF commas = {} THEN chars ELSE SubSeq(chars, 1, Min(commas) - 1)

\* The text without the whitespace at its ends.
Trimmed(chars) ==
    LET solid == {i \in 1..Len(chars) : chars[i] \notin Whitespace}
    IN  IF solid = {} THEN <<>>
        ELSE SubSeq(chars, Min(solid), CHOOSE j \in solid : \A k \in solid : k <= j)

\* The template filled in place by place: a field between backquotes is
\* put in as it is, a field in free text escaped.  values[name] is the text
\* of the field.
RECURSIVE Filled(_, _, _)
Filled(template_str, in_code, values) ==
    IF template_str = <<>> THEN <<>>
    ELSE LET tok == Head(template_str)
             code == IF tok = Lit(Backquote) THEN ~in_code ELSE in_code
         IN  (IF tok.k = "lit" THEN <<tok.v>>
              ELSE IF in_code THEN values[tok.v] ELSE Escaped(values[tok.v]))
             \o Filled(Tail(template_str), code, values)

\* C15 (as claimed): a field the template puts between backquotes appears in
\* the rendered text as it is in the message, a field in free text appears
\* with its reserved characters escaped.
C15_VerbatimUnescaped ==
    (Rendered /\ ExpectedTemplate # <<>> /\ Plain(ExpectedTemplate)
     /\ StringFields(ExpectedTemplate)) =>
        out.sent.text = Filled(ExpectedTemplate, FALSE, [name \in Keys |-> FieldText(name)])

\* The field texts with src cut at its first comma and trimmed.
NormalizedText(name) ==
    IF name = "src" THEN Trimmed(BeforeComma(FieldText(name))) ELSE FieldText(name)

\* Every placeholder escaped, wherever the template puts it.
RECURSIVE FilledEscaped(_, _)
FilledEscaped(template_str, values) ==
    IF template_str = <<>> THEN <<>>
    ELSE (IF Head(template_str).k = "lit" THEN <<Head(template_str).v>>
          ELSE Escaped(values[Head(template_str).v]))
         \o FilledEscaped(Tail(template_str), values)

\* C16 (as claimed): the src placeholder renders the escaped form of the
\* part of src before its first comma, trimmed.
C16_SrcNormalized ==
    (Rendered /\ ExpectedTemplate # <<>> /\ Plain(ExpectedTemplate)
     /\ StringFields(ExpectedTemplate)) =>
        out.sent.text =
            FilledEscaped(ExpectedTemplate, [name \in Keys |-> NormalizedText(name)])

C19_TemplateSelected ==
    Rendered =>
        LET Check(filled) == filled.exc = "" => out.sent.text = filled.text
            Fill(prepared) ==
                prepared.exc = "" =>
                    Check(format_map(ExpectedTemplate, prepared.context))
        IN  Fill(_prepare_render_context(message))

\* The names _prepare_render_context puts into the context.
ContextKeys ==
    {"type", "src", "dst", "msg", "msg_id", "ack_id", "lat", "long", "alt",
     "_alt_m", "_map_link", "_raw_json_short"}

\* The template has a placeholder the context has no entry for.
HasMissing(template_str) ==
    \E i \in 1..Len(template_str) :
        template_str[i].k = "field" /\ template_str[i].v \notin ContextKeys

\* The template filled from the context, ??? for a name it lacks.
RECURSIVE Substituted(_, _)
Substituted(template_str, context) ==
    IF template_str = <<>> THEN <<>>
    ELSE (IF Head(template_str).k = "lit" THEN <<Head(template_str).v>>
          ELSE IF Head(template_str).v \in DOMAIN context
          THEN PyStr(context[Head(template_str).v])
          ELSE <<"?", "?", "?">>)
         \o Substituted(Tail(template_str), context)

\* C20: a placeholder without an entry in the context renders as ???, the
\* other placeholders of the template render their context values, and the
\* text is not one of the error fallbacks.
C20_MissingKeySentinel ==
    (Rendered /\ Plain(ExpectedTemplate) /\ HasMissing(ExpectedTemplate)) =>
        LET Fill(prepared) ==
                out.sent.text = Substituted(ExpectedTemplate, prepared.context)
        IN  Fill(_prepare_render_context(message))

\* C20 witness: U{dst}{hw_id} rendered for a message to ADMIN as UADMIN???.
C20_Witness ==
    /\ Rendered
    /\ HasMissing(ExpectedTemplate)
    /\ message.dst = <<Str(S_ADMIN)>>
    /\ out.sent.text = <<"U">> \o S_ADMIN \o <<"?", "?", "?">>

\* A rendering error occurred for this datagram: a template was selected and
\* either building the context or substituting into the template raised.
RenderError ==
    /\ pc = "done"
    /\ out.send_calls # <<>>
    /\ ExpectedTemplate # <<>>
    /\ LET Failed(prepared) ==
               \/ prepared.exc # ""
               \/ format_map(ExpectedTemplate, prepared.context).exc # ""
       IN  Failed(_prepare_render_context(message))

\* C21 (as claimed): whenever building the context or substituting raises,
\* the render returns the fixed error template, which embeds the type tag and
\* the indented JSON dump of the whole message, and nothing is raised.
C21_RenderErrorFallback ==
    RenderError =>
        /\ out.sent.exc = ""
        /\ out.sent.text = FormatFallback(TypeTag, message)

\* The characters MarkdownV2 reserves.
Reserved ==
    {"_", "*", "[", "]", "(", ")", "~", Backquote, ">", "#", "+", "-", "=", "|",
     "{", "}", ".", "!"}

\* e is x with one backslash put before every reserved character and every
\* backslash of x and nothing else changed: e is longer than x by the number
\* of those characters, the i-th character of x stands in e after the
\* backslashes inserted up to it, and a backslash stands right before it when
\* it is reserved or a backslash.
EscapedOnce(x, e) ==
    LET special == {j \in 1..Len(x) : x[j] = "\\" \/ x[j] \in Reserved}
        pos(i) == i + Cardinality({j \in special : j <= i})
    IN  /\ Len(e) = Len(x) + Cardinality(special)
        /\ \A i \in 1..Len(x) :
             /\ e[pos(i)] = x[i]
             /\ i \in special => e[pos(i) - 1] = "\\"

\* C22: escape_markdown_v2 escapes each character exactly once.  For every
\* text field of a message that is rendered, the escaped text is the field
\* with one backslash before each reserved character and each backslash
\* (so its length is the field's plus their number, and dropping the inserted
\* backslashes gives the field back); an absent value gives the empty string;
\* and the text rendered from the template {msg} is msg escaped that way.
C22_EscapedOnce ==
    (pc = "done" /\ out.send_calls # <<>>) =>
        /\ escape_markdown_v2(None) = [exc |-> "", text |-> <<>>]
        /\ \A name \in {"type", "src", "dst", "msg", "msg_id", "ack_id"} :
             (message[name] # <<>> /\ message[name][1].t = "str") =>
                LET Check(e) == e.exc = "" /\ EscapedOnce(message[name][1].s, e.text)
                IN  Check(escape_markdown_v2(message[name][1]))
        /\ (Rendered /\ ExpectedTemplate = <<Field("msg")>>
            /\ message.msg # <<>> /\ message.msg[1].t = "str") =>
                EscapedOnce(message.msg[1].s, out.sent.text)

\* C22 witness: the text that starts with a backslash, an underscore and an
\* exclamation mark is rendered from the template {msg} with three
\* backslashes before the underscore and one before the exclamation mark.
C22_Witness ==
    /\ Rendered
    /\ message = PaddedMessage(FitPad)
    /\ ExpectedTemplate = <<Field("msg")>>
    /\ out.sent.text = <<"\\", "\\", "\\", "_", "\\", "!">> \o Padding(FitPad)

\* The render of this datagram built its context: a delivery call was made
\* and a template was found.
ContextBuilt == pc = "done" /\ out.send_calls # <<>> /\ ExpectedTemplate # <<>>

NotAvailable == <<"N", "/", "A">>

\* C23 (as claimed): _alt_m is the feet-to-metres conversion for every
\* numeric alt, 0 included, and a sentinel only when alt is absent or not a
\* number; _map_link is the map URL of the raw lat and long whenever both
\* are present, 0 included, and N/A only when one of them is absent.
C23_PositionSentinels ==
    ContextBuilt =>
        LET Url(lat, long) ==
                MapLinkPrefix \o PyStr(lat) \o MapLinkLon \o PyStr(long)
                \o MapLinkZoom \o PyStr(lat) \o <<"/">> \o PyStr(long)
            Check(prepared) ==
                prepared.exc = "" =>
                    /\ (message.alt # <<>> /\ message.alt[1].t = "num") =>
                          prepared.context._alt_m = Str(AltMeters(message.alt[1].n))
                    /\ prepared.context._alt_m.s \in {NotAvailable, AltInvalid} =>
                          (message.alt = <<>> \/ message.alt[1].t # "num")
                    /\ (message.lat # <<>> /\ message.long # <<>>) =>
                          prepared.context._map_link =
                              Str(Url(message.lat[1], message.long[1]))
                    /\ prepared.context._map_link.s = NotAvailable =>
                          (message.lat = <<>> \/ message.long = <<>>)
        IN  Check(_prepare_render_context(message))

\* a is the beginning of b.
IsPrefix(a, b) == Len(a) <= Len(b) /\ a = SubSeq(b, 1, Len(a))

Ellipsis == <<".", ".", ".">>

\* C24: with S the compact JSON of the message, _raw_json_short is S when S
\* has at most 200 characters and the first 200 characters of S followed by
\* ... when it has more; it is never longer than 203 characters and, the
\* marker apart, it is a beginning of S.
C24_RawJsonTruncated ==
    ContextBuilt =>
        LET Check(S, short) ==
                /\ Len(S) <= RawJsonMax => short = S
                /\ Len(S) > RawJsonMax => short = SubSeq(S, 1, RawJsonMax) \o Ellipsis
                /\ Len(short) <= RawJsonMax + Len(Ellipsis)
                /\ IsPrefix(IF Len(S) > RawJsonMax
                            THEN SubSeq(short, 1, Len(short) - Len(Ellipsis))
                            ELSE short, S)
            Built(prepared) ==
                prepared.exc = "" =>
                    Check(JsonDumpsCompact(message), prepared.context._raw_json_short.s)
        IN  Built(_prepare_render_context(message))

\* C24 witness: a rendered message whose compact JSON has 201 characters; its
\* _raw_json_short has 203, the last three being the marker.
C24_Witness ==
    /\ Rendered
    /\ message = PaddedMessage(FitPad + 1)
    /\ Len(JsonDumpsCompact(message)) = RawJsonMax + 1
    /\ LET Short(prepared) ==
               /\ Len(prepared.context._raw_json_short.s) = RawJsonMax + 3
               /\ SubSeq(prepared.context._raw_json_short.s, RawJsonMax + 1,
                         RawJsonMax + 3) = Ellipsis
       IN  Short(_prepare_render_context(message))

\* ---------------------------------------------------- start-up and shutdown
\* C25 (as claimed): whatever way the getMe self-check fails, the forwarder
\* is constructed all the same: when the initialisation is over and the
\* check has run and not succeeded, nothing was raised to the listener and
\* forwarder_instance is the forwarder that later datagrams are sent with.
C25_CheckFailureKeepsForwarder ==
    (pc = "bind" /\ startup.check \notin {"none", "ok"}) =>
        /\ startup.exc = ""
        /\ forwarder_instance = "TelegramForwarder"

\* C26 (as claimed): a forwarder exists only with a template set whose
\* default entry is a non-empty string, so that a render that falls back on
\* the default always finds a template.
C26_DefaultNonEmpty ==
    forwarder_instance = "TelegramForwarder" =>
        /\ S_default \in DOMAIN templates
        /\ templates[S_default] # <<>>
        /\ (Rendered /\ ExpectedTemplate = templates[S_default]) =>
              out.sent.text # NoTemplatePrefix \o PyStr(TypeTag) \o NoTemplateSuffix

\* C27: an error leaves start_udp_listener only from the set-up of the
\* socket, before any datagram, and then no socket is left open; once the
\* socket is bound it stays open through the loop, an error of a receive
\* puts the loop to sleep and from there it goes on to the next receive with
\* nothing else changed, and the listener is left only by the interrupt:
\* through the finally block after the loop's break, or straight out of the
\* sleep.
C27_Step ==
    /\ (pc' = "raised" /\ pc # "raised") =>
          /\ pc = "bind" /\ clock = 0
          /\ sock' \in {"none", "closed"}
    /\ (pc = "bind" /\ pc' # "bind") => pc' \in {"recv", "raised"}
    /\ (pc = "recv" /\ pc' # "recv") => pc' \in {"handle", "sleep", "closing"}
    /\ (pc = "sleep" /\ pc' # "sleep") =>
          /\ pc' \in {"recv", "interrupted"}
          /\ pc' = "recv" => UNCHANGED <<config, db_handler, sock, clock>>
    /\ (pc' = "returned" /\ pc # "returned") => pc = "closing"
    /\ (pc' = "closing" /\ pc # "closing") => pc \in {"recv", "handle", "done"}

C27_OnlyBindFatal ==
    /\ [](/\ pc \in {"recv", "handle", "done", "sleep", "closing"} => sock = "open"
          /\ pc = "raised" => sock # "open")
    /\ [][C27_Step]_vars

\* C27 witness: after one datagram a receive has failed; the socket is open
\* and the loop sleeps before its next receive.
C27_Witness ==
    /\ pc = "sleep"
    /\ sock = "open"
    /\ clock = 1

\* A well-formed save_message call of a client of the handler.
SaveArgs(received_time, msg_type, source) ==
    [received_time |-> received_time, msg_type |-> msg_type, source |-> source,
     raw_message_str |-> <<"{", "}">>]

\* C28 (as claimed): when the program has left the with block, however the
\* listener ended, the handler has no connection, and a save_message on it
\* raises the storage error and writes nothing.
C28_ConnectionReleased ==
    (pc = "exited" /\ db_handler.kind = "DatabaseHandler") =>
        /\ ~db_handler.connection
        /\ LET Refused(r) == r.exc = "sqlite3.Error" /\ r.db = db_handler
           IN  Refused(save_message(db_handler, SaveArgs(clock, None, None), FALSE))

C30_Step ==
    /\ pc # "init" => forwarder_instance' = forwarder_instance
    /\ forwarding_enabled' = forwarding_enabled
    /\ forwarding_rules' = forwarding_rules

\* C30: a send_message call is made for a datagram only when forwarding is
\* enabled, a forwarder was built at the start and the rule list is not
\* empty; with forwarding disabled, or with an initialisation that raised,
\* there is no forwarder from the initialisation on, and the forwarder never
\* changes after it; and without a forwarder a datagram is stored exactly as
\* it would be with one.
C30_ForwardingOnlyWhenBuilt ==
    /\ [](/\ out.send_calls # <<>> =>
                /\ forwarding_enabled
                /\ forwarder_instance = "TelegramForwarder"
                /\ forwarding_rules # <<>>
          /\ ~forwarding_enabled => forwarder_instance = "None"
          /\ (pc = "bind" /\ startup.exc # "") => forwarder_instance = "None"
          /\ (pc = "bind" /\ forwarder_instance = "TelegramForwarder") =>
                startup.notified /\ startup.exc = ""
          /\ (pc = "handle" /\ forwarder_instance = "None") =>
                \A engine_error \in EngineOutcomes(db_handler) :
                    LET Run(forwarder) ==
                            StoreView(_handle_packet(data, clock, db_handler, forwarder,
                                                     store_types, forwarding_rules,
                                                     templates, engine_error, "ok"))
                        Same(view) == Run("TelegramForwarder") = view
                    IN  Same(Run("None")))
    /\ [][C30_Step]_vars

\* C30 witness: forwarding is enabled and there are rules, but the
\* initialisation failed; a datagram was received on the bound socket, its
\* insert call was made and no send_message call.
C30_Witness ==
    /\ pc = "done"
    /\ sock = "open"
    /\ forwarding_enabled
    /\ forwarding_rules # <<>>
    /\ forwarder_instance = "None"
    /\ Len(out.store_calls) = 1
    /\ out.send_calls = <<>>
====
